---- MODULE Spec2Model ----
(***************************************************************************)
(* A model of cfme/physical/physical_server.py: the PhysicalServer entity  *)
(* (toolbar actions, refresh, state polling, existence checks, BMC restart *)
(* wait, validate_stats) and the navigation steps registered for it.       *)
(*                                                                         *)
(* The program is single threaded.  One call of one public method runs     *)
(* per behaviour: pc is the position inside that call, the Env* actions    *)
(* are the outside world (the appliance UI, the provider, the BMC)         *)
(* changing between two steps of the call.  Time (now, in seconds) passes  *)
(* only in the sleeps of wait_for.                                         *)
(***************************************************************************)
EXTENDS Integers, Sequences, FiniteSets, TLC

VARIABLES
    pc,            \* position of the running call
    method,        \* the public method that was called
    kw,            \* its arguments
    now,           \* the clock, in seconds
    result,        \* "none" while running, then "ok" or the exception raised
    st1, tries1,   \* st_time and tries of the wait_for the method itself runs
    st2, tries2,   \* st_time and tries of the wait_for inside refresh()
    ret,           \* who called refresh(): "top" (the test) or "sc" (_is_state_changed)
    uiState,       \* what the target accessor reads from the details page
    stamp,         \* provider.last_refresh_date()
    last_refresh,  \* the local last_refresh of refresh()
    flash,         \* view.flash.is_displayed
    bmc,           \* outcome of requests.get on the BMC url
    lastRead,      \* the accessor value of the last _is_state_changed evaluation
    stampRead,     \* the timestamp of the last evaluation of refresh()'s predicate
    stampAtClick,  \* the timestamp when the refresh action was selected
    probes,        \* number of BMC probes sent
    sawFail,       \* some BMC probe so far has failed
    okAfterFail,   \* some BMC probe has succeeded after a failed one
    view,          \* the view the browser displays
    clicks,        \* toolbar selections made, in order
    listing,       \* the pages of the servers listing as the browser shows them
    lastExists,    \* what the last evaluation of self.exists returned
    refreshes,     \* calls of fail_func (view.browser.refresh) so far
    vs,            \* validate_stats: its argument, the UI texts and the remote data
    vsOut,         \* validate_stats: <<exception, key, server value, cfme value>>
    navTarget,     \* navigate_to: the step asked for
    navFrom,       \* navigate_to: the view displayed when it was called
    navStack,      \* navigate_to: the pending steps, innermost first
    navLog,        \* navigate_to: the step() transitions executed, in order
    coll,          \* all / find_by: the rows of the query, the collection's filter
                   \* and the arguments of the call
    collOut        \* all / find_by: the entities returned, in order

vars == <<pc, method, kw, now, result, st1, tries1, st2, tries2, ret, uiState,
          stamp, last_refresh, flash, bmc, lastRead, stampRead, stampAtClick,
          probes, sawFail, okAfterFail, view, clicks, listing, lastExists, refreshes,
          vs, vsOut, navTarget, navFrom, navStack, navLog, coll, collOut>>

\* the state only all and find_by use
collVars == <<coll, collOut>>

\* the state only the listing, validate_stats and navigate_to calls use
otherVars == <<listing, lastExists, refreshes, vs, vsOut, navTarget, navFrom, navStack,
               navLog, coll, collOut>>

None == "None"

\* ---------------------------------------------------------------- bounds
\* how many times the provider's last refresh date changes in one behaviour
MaxStamp == 2
\* how many pages the servers listing has at most
MaxPages == 3
\* how deep navigate_to may recurse (Python's recursion limit)
MaxNavDepth == 6
\* how many rows the query of all / find_by returns at most
MaxRows == 2

\* ------------------------------------------------------- program constants
DefaultTimeout == 300
DefaultDelay == 10
FlashNumSec == 5
FlashDelay == 2
RefreshNumSec == 300
RefreshDelay == 30
BmcNumSec == 300
BmcDelay == 5
\* the timeout and delay a caller passes in the scenario
\* power_on(desired_state='on', timeout=5, delay=1)
ScenarioBudget == <<5, 1>>

\* wait_to_appear and wait_for_delete; they pass no delay and wait_for then
\* sleeps its default, one second, between attempts
AppearNumSec == 1000
DeleteNumSec == 500
WaitForDefaultDelay == 1

PowerStates == {"on", "off"}
ProbeOutcomes == {"ok", "notok", "ConnectionError"}
\* the registered steps, the root step they hang from, and any other page
Steps == {"All", "Details", "ManagePolicies", "Provision", "Timelines"}
Root == "LoggedIn"
Views == Steps \cup {Root, "Other"}

\* the server under test and another server of the listing
SelfName == "srv1"
Names == {"srv1", "srv2"}
Pages == SUBSET Names
\* a listing shows a server on one page at most
Listings == {l \in UNION {[1..n -> Pages] : n \in 0..MaxPages} :
                \A i, j \in DOMAIN l : i # j => l[i] \cap l[j] = {}}

INVENTORY_TO_MATCH == <<"power_state">>
STATS_TO_MATCH == <<"cores_capacity", "memory_capacity">>
StatKeys == {STATS_TO_MATCH[i] : i \in DOMAIN STATS_TO_MATCH}
InventoryKeys == {INVENTORY_TO_MATCH[i] : i \in DOMAIN INVENTORY_TO_MATCH}
\* the texts the details page may show for a capacity, as digit sequences
\* (decimal numbers, with or without a leading zero: the texts int() accepts)
StatTexts == {<<1, 6>>, <<0, 1, 6>>, <<1, 6, 3, 8, 4>>, <<3, 2, 7, 6, 8>>}
\* the values the management system may report for a capacity
StatValues == {16, 16384, 32768}
NoStats == [ui |-> FALSE,
            has |-> [k \in StatKeys \cup InventoryKeys |-> TRUE],
            cfme_stats |-> [k \in StatKeys |-> <<1, 6>>],
            cfme_inventory |-> [k \in InventoryKeys |-> "off"],
            server_stats |-> <<>>,
            server_inventory |-> <<>>]

\* the toolbar selection of each action method
ActionOf(m) ==
    CASE m = "power_on" -> <<"Power", "Power On">>
      [] m = "power_off" -> <<"Power", "Power Off">>
      [] m = "power_off_now" -> <<"Power", "Power Off Immediately">>
      [] m = "restart" -> <<"Power", "Restart">>
      [] m = "restart_now" -> <<"Power", "Restart Immediately">>
      [] m = "restart_to_sys_setup" -> <<"Power", "Restart to System Setup">>
      [] m = "restart_management_controller" -> <<"Power", "Restart Management Controller">>
      [] m = "turn_on_loc_led" -> <<"Identify", "Turn On LED">>
      [] m = "turn_off_loc_led" -> <<"Identify", "Turn Off LED">>
      [] m = "blink_loc_led" -> <<"Identify", "Blink LED">>

PowerMethods == {"power_on", "power_off", "power_off_now", "restart", "restart_now",
                 "restart_to_sys_setup", "restart_management_controller"}
LedMethods == {"turn_on_loc_led", "turn_off_loc_led", "blink_loc_led"}
ActionMethods == PowerMethods \cup LedMethods

RefreshSelection == <<"Configuration", "Refresh Relationships and Power States">>

\* ------------------------------------------------------------- wait_for
\* wait_for's loop test, "while t_delta <= num_sec": after a failed attempt
\* and its sleep the loop goes on iff the time since st_time is within num_sec
wait_for_continues(st, t, num_sec) == t - st <= num_sec

\* ------------------------------------------------ predicates of the code
\* mutant: the state wait is entered whatever desired_state is
wants_state_change_always(desired_state) == TRUE

\* "if desired_state:" in _execute_action_button
wants_state_change(desired_state) == desired_state # None

\* mutant: the comparison is inverted
is_state_changed_inverted(desired_state, value) == desired_state # value

\* "return desired_state == getattr(self, target)()"
is_state_changed(desired_state, value) == desired_state = value

\* mutant: the timestamp is compared with <= and so never seen unchanged
refresh_predicate_le(captured, current) == captured <= current

\* "lambda: last_refresh != provider.last_refresh_date()"
refresh_predicate(captured, current) == captured # current

\* mutant: any response counts, whatever its status
send_request_any_response(outcome) == outcome # "ConnectionError"

\* _send_request: requests.get(url).ok, False on a ConnectionError
send_request(outcome) == outcome = "ok"

\* mutant: wait_to_appear waits on "not self.exists"
appear_predicate_negated(e) == ~e

\* lambda: self.exists, the predicate of wait_to_appear
appear_predicate(e) == e

\* lambda: not self.exists, the predicate of wait_for_delete
delete_predicate(e) == ~e

\* ------------------------------------------------------------- listing
\* view.entities.get_entity(name=..., surf_pages=True): the pages are scanned in
\* order for an entity of that name; ItemNotFound when no page holds one
RECURSIVE surf_pages(_, _, _)
surf_pages(pages, name, i) ==
    IF i > Len(pages) THEN <<"ItemNotFound", 0>>
    ELSE IF name \in pages[i] THEN <<"Entity", i>>
    ELSE surf_pages(pages, name, i + 1)

get_entity(pages, name) == surf_pages(pages, name, 1)

\* mutant: the two branches of the try are swapped
exists_swapped(pages, name) ==
    IF get_entity(pages, name)[1] = "ItemNotFound" THEN TRUE ELSE FALSE

\* the exists property: False on ItemNotFound, else True
exists(pages, name) ==
    IF get_entity(pages, name)[1] = "ItemNotFound" THEN FALSE ELSE TRUE

\* ------------------------------------------------------- validate_stats
\* int() of a text of decimal digits
RECURSIVE to_int(_)
to_int(text) ==
    IF text = <<>> THEN 0
    ELSE to_int(SubSeq(text, 1, Len(text) - 1)) * 10 + text[Len(text)]

NoError == <<"none", None, 0, 0>>

\* mutant: the remote mapping is indexed before the accessor is called
check_stat_remote_first(v, stat) ==
    IF stat \notin DOMAIN v.server_stats THEN <<"HostStatsNotContains", stat, 0, 0>>
    ELSE IF ~v.has[stat] THEN <<"ProviderHasNoProperty", stat, 0, 0>>
    ELSE LET cfme_stat == to_int(v.cfme_stats[stat])
             server_stat == v.server_stats[stat]
         IN  IF server_stat # cfme_stat
             THEN <<"StatsDoNotMatch", stat, server_stat, cfme_stat>>
             ELSE <<"none", None, 0, 0>>

\* the body of "for stat in stats_to_match": the accessor is called first
\* (AttributeError), then the remote mapping is indexed (KeyError), then the two
\* integers are compared
check_stat(v, stat) ==
    IF ~v.has[stat] THEN <<"ProviderHasNoProperty", stat, 0, 0>>
    ELSE IF stat \notin DOMAIN v.server_stats THEN <<"HostStatsNotContains", stat, 0, 0>>
    ELSE LET cfme_stat == to_int(v.cfme_stats[stat])
             server_stat == v.server_stats[stat]
         IN  IF server_stat # cfme_stat
             THEN <<"StatsDoNotMatch", stat, server_stat, cfme_stat>>
             ELSE NoError

\* the body of "for inventory in inventory_to_match": as check_stat, without int()
check_inventory(v, server_inventory, inventory) ==
    IF ~v.has[inventory] THEN <<"ProviderHasNoProperty", inventory, "", "">>
    ELSE IF inventory \notin DOMAIN server_inventory
    THEN <<"HostStatsNotContains", inventory, "", "">>
    ELSE LET cfme_inventory == v.cfme_inventory[inventory]
         IN  IF server_inventory[inventory] # cfme_inventory
             THEN <<"StatsDoNotMatch", inventory, server_inventory[inventory],
                    cfme_inventory>>
             ELSE NoError

RECURSIVE stats_loop(_, _)
stats_loop(v, i) ==
    IF i > Len(STATS_TO_MATCH) THEN NoError
    ELSE LET r == check_stat(v, STATS_TO_MATCH[i])
         IN  IF r[1] # "none" THEN r ELSE stats_loop(v, i + 1)

\* the loop rebinds server_inventory to the value it just read; with the one key of
\* INVENTORY_TO_MATCH there is no second iteration to index it again
RECURSIVE inventory_loop(_, _, _)
inventory_loop(v, server_inventory, i) ==
    IF i > Len(INVENTORY_TO_MATCH) THEN NoError
    ELSE LET r == check_inventory(v, server_inventory, INVENTORY_TO_MATCH[i])
         IN  IF r[1] # "none" THEN r
             ELSE inventory_loop(v, server_inventory[INVENTORY_TO_MATCH[i]], i + 1)

\* mutant: the inventory loop is left out
validate_stats_no_inventory(v) == stats_loop(v, 1)

validate_stats(v) ==
    LET r == stats_loop(v, 1)
    IN  IF r[1] # "none" THEN r ELSE inventory_loop(v, v.server_inventory, 1)

\* ----------------------------------------------------------- navigation
\* mutant: ManagePolicies hangs from the collection's All step, not from Details
prerequisite_skips_details(step) ==
    CASE step = "All" -> "LoggedIn"
      [] step = "Details" -> "All"
      [] step = "ManagePolicies" -> "All"
      [] step = "Provision" -> "Details"
      [] step = "Timelines" -> "Details"

\* the prerequisite each registered step declares
prerequisite(step) ==
    CASE step = "All" -> Root
      [] step = "Details" -> "All"
      [] step = "ManagePolicies" -> "Details"
      [] step = "Provision" -> "Details"
      [] step = "Timelines" -> "Details"

\* the accessor an action method's state is read with
TargetOf(m) == IF m \in LedMethods THEN "location_led_state" ELSE "power_state"

\* the defaults of _execute_action_button's keyword arguments
NoArgs == [target |-> None, provider |-> None, desired_state |-> None,
           timeout |-> DefaultTimeout, delay |-> DefaultDelay,
           handle_alert |-> TRUE, wait_restart_bmc |-> FALSE]

\* where a finished _execute_action_button goes on: restart_management_controller
\* waits for the BMC when wait_restart_bmc is set, every other method returns
after_action(m, k) ==
    IF m = "restart_management_controller" /\ k.wait_restart_bmc
    THEN "bmc_stop" ELSE "done"

\* ----------------------------------------------------------- collection
\* the management systems of the appliance, and the addresses of its servers
EmsNames == {"ems1", "ems2"}
IpAddresses == {"10.0.0.1", "10.0.0.2"}

\* a provider object, known by its name; no provider: None, or a filters dict
\* without 'provider'
Provider(name) == <<"provider", name>>
NoProvider == <<>>
ProviderName(p) == p[2]
Providers == {Provider(n) : n \in EmsNames \cup {"ems3"}}

\* the rows physical_server_query yields before any filter: (physical server
\* name, management system name, ip address), in the order of the query
QueryRow == Names \X EmsNames \X IpAddresses
QueryResults == UNION {[1..n -> QueryRow] : n \in 0..MaxRows}

NoCall == [rows |-> <<>>, filter |-> NoProvider, provider |-> NoProvider,
           ph_name |-> SelfName]

\* get_crud_by_name(ems_name): the provider registered under that name
get_crud_by_name(ems_name) == Provider(ems_name)

\* self.instantiate(name=..., ip_address=..., provider=...)
instantiate(name, ip_address, provider) ==
    [name |-> name, ip_address |-> ip_address, provider |-> provider]

\* mutant: the caller's provider is kept when the collection has no filter
bound_provider_keeps_argument(filters, provider) ==
    IF filters # NoProvider THEN filters ELSE provider

\* "provider = None", then "if self.filters.get('provider'): provider = ..."
bound_provider(filters, provider) ==
    IF filters # NoProvider THEN filters ELSE NoProvider

\* ".filter(ems_table.name == provider.name)" when the collection has a filter
filtered_query(rows, filters) ==
    IF filters # NoProvider
    THEN LET of_provider(r) == r[2] = ProviderName(filters)
         IN  SelectSeq(rows, of_provider)
    ELSE rows

\* "provider=provider or get_crud_by_name(ems_name)" for one row
row_entity(row, provider) ==
    instantiate(row[1], row[3],
                IF provider # NoProvider THEN provider ELSE get_crud_by_name(row[2]))

\* PhysicalServerCollection.all: one entity per row of the query
all(rows, filters, provider) ==
    LET p == bound_provider(filters, provider)
        q == filtered_query(rows, filters)
    IN  [i \in 1..Len(q) |-> row_entity(q[i], p)]

\* the loop of find_by: the first row of that name, None (here <<>>) without one
RECURSIVE find_first(_, _, _, _)
find_first(q, ph_name, p, i) ==
    IF i > Len(q) THEN <<>>
    ELSE IF ph_name = q[i][1] THEN <<row_entity(q[i], p)>>
    ELSE find_first(q, ph_name, p, i + 1)

\* PhysicalServerCollection.find_by
find_by(rows, filters, provider, ph_name) ==
    find_first(filtered_query(rows, filters), ph_name,
               bound_provider(filters, provider), 1)

Init ==
    /\ pc = "idle"
    /\ method = None
    /\ kw = NoArgs
    /\ now = 0
    /\ result = "none"
    /\ st1 = 0 /\ tries1 = 0 /\ st2 = 0 /\ tries2 = 0
    /\ ret = "top"
    /\ uiState = "off"
    /\ stamp = 0
    /\ last_refresh = 0
    /\ flash = FALSE
    /\ bmc = "ok"
    /\ lastRead = None
    /\ stampRead = 0
    /\ stampAtClick = 0
    /\ probes = 0 /\ sawFail = FALSE /\ okAfterFail = FALSE
    /\ view = "LoggedIn"
    /\ clicks = <<>>
    /\ listing = <<>>
    /\ lastExists = FALSE
    /\ refreshes = 0
    /\ vs = NoStats
    /\ vsOut = <<"none", None, 0, 0>>
    /\ navTarget = None
    /\ navFrom = None
    /\ navStack = <<>>
    /\ navLog = <<>>
    /\ coll = NoCall
    /\ collOut = <<>>

\* ------------------------------------------------------ action methods
\* the test calls one of power_on .. blink_loc_led with keyword arguments
CallAction ==
    /\ pc = "idle"
    /\ \E m \in ActionMethods, d \in PowerStates \cup {None}, ha \in BOOLEAN,
          wr \in BOOLEAN, b \in {<<DefaultTimeout, DefaultDelay>>, ScenarioBudget},
          s \in PowerStates, v \in Views, tg \in BOOLEAN,
          p \in {None, "provider"} :
        /\ (wr => m = "restart_management_controller")
        /\ (d = None => b = <<DefaultTimeout, DefaultDelay>>)
        /\ (d # None => ha)
        /\ method' = m
        /\ kw' = [target |-> IF tg THEN TargetOf(m) ELSE None, provider |-> p, desired_state |-> d,
                  timeout |-> b[1], delay |-> b[2],
                  handle_alert |-> ha, wait_restart_bmc |-> wr]
        /\ uiState' = s
        /\ view' = v
    /\ pc' = "exec_button"
    /\ UNCHANGED <<otherVars, now, result, st1, tries1, st2, tries2, ret, stamp, last_refresh,
                   flash, bmc, lastRead, stampRead, stampAtClick, probes, sawFail,
                   okAfterFail, clicks>>

\* _execute_action_button up to the start of its wait: _execute_button, then the
\* choice between wait_for_state_change, the flash wait and returning
ExecuteActionButton ==
    /\ pc = "exec_button"
    /\ view' = "Details"
    /\ clicks' = Append(clicks, ActionOf(method))
    /\ st1' = now
    /\ tries1' = 0
    /\ IF wants_state_change(kw.desired_state)
       THEN pc' = "sc_poll" /\ result' = result
       ELSE IF kw.handle_alert
       THEN pc' = "flash_poll" /\ result' = result
       ELSE /\ pc' = after_action(method, kw)
            /\ result' = IF pc' = "done" THEN "ok" ELSE result
    /\ UNCHANGED <<otherVars, method, kw, now, st2, tries2, ret, uiState, stamp, last_refresh,
                   flash, bmc, lastRead, stampRead, stampAtClick, probes, sawFail,
                   okAfterFail>>

\* one attempt of wait_for(lambda: view.flash.is_displayed, num_sec=5, delay=2)
FlashPoll ==
    /\ pc = "flash_poll"
    /\ IF flash
       THEN /\ pc' = after_action(method, kw)
            /\ result' = IF pc' = "done" THEN "ok" ELSE result
            /\ now' = now
            /\ st1' = now
            /\ tries1' = IF pc' = "done" THEN tries1 + 1 ELSE 0
       ELSE /\ now' = now + FlashDelay
            /\ st1' = st1
            /\ tries1' = tries1 + 1
            /\ IF wait_for_continues(st1, now', FlashNumSec)
               THEN pc' = "flash_poll" /\ result' = result
               ELSE pc' = "done" /\ result' = "TimedOut"
    /\ UNCHANGED <<otherVars, method, kw, st2, tries2, ret, uiState, stamp, last_refresh, flash,
                   bmc, lastRead, stampRead, stampAtClick, probes, sawFail, okAfterFail,
                   view, clicks>>

\* wait_for_state_change: an attempt of wait_for(_is_state_changed, ...) begins;
\* _is_state_changed first calls self.refresh(provider, handle_alert=True)
StateChangePoll ==
    /\ pc = "sc_poll"
    /\ tries1' = tries1 + 1
    /\ ret' = "sc"
    /\ pc' = "rf_capture"
    /\ UNCHANGED <<otherVars, method, kw, now, result, st1, st2, tries2, uiState, stamp,
                   last_refresh, flash, bmc, lastRead, stampRead, stampAtClick,
                   probes, sawFail, okAfterFail, view, clicks>>

\* the rest of _is_state_changed: view.browser.refresh(), read the target accessor,
\* compare; then wait_for returns, or sleeps and loops, or raises TimedOutError
StateChangeRead ==
    /\ pc = "sc_read"
    /\ view' = "Details"
    /\ IF kw.target = None
       THEN \* getattr(self, None)
            /\ pc' = "done"
            /\ result' = "TypeError"
            /\ UNCHANGED <<now, st1, tries1, lastRead>>
       ELSE /\ lastRead' = uiState
            /\ IF is_state_changed(kw.desired_state, uiState)
               THEN /\ pc' = after_action(method, kw)
                    /\ result' = IF pc' = "done" THEN "ok" ELSE result
                    /\ now' = now
                    /\ st1' = now
                    /\ tries1' = IF pc' = "done" THEN tries1 ELSE 0
               ELSE /\ now' = now + kw.delay
                    /\ st1' = st1
                    /\ tries1' = tries1
                    /\ IF wait_for_continues(st1, now', kw.timeout)
                       THEN pc' = "sc_poll" /\ result' = result
                       ELSE pc' = "done" /\ result' = "TimedOut"
    /\ UNCHANGED <<otherVars, method, kw, st2, tries2, ret, uiState, stamp, last_refresh,
                   flash, bmc, stampRead, stampAtClick, probes, sawFail, okAfterFail,
                   clicks>>

\* ------------------------------------------------------------- refresh
\* the test calls refresh(provider)
CallRefresh ==
    /\ pc = "idle"
    /\ \E v \in Views : view' = v
    /\ method' = "refresh"
    /\ kw' = [NoArgs EXCEPT !.provider = "provider"]
    /\ ret' = "top"
    /\ pc' = "rf_capture"
    /\ UNCHANGED <<otherVars, now, result, st1, tries1, st2, tries2, uiState, stamp,
                   last_refresh, flash, bmc, lastRead, stampRead, stampAtClick,
                   probes, sawFail, okAfterFail, clicks>>

\* "last_refresh = provider.last_refresh_date()"; the provider that
\* _execute_action_button hands down is None when the caller passed none
RefreshCapture ==
    /\ pc = "rf_capture"
    /\ IF kw.provider = None
       THEN pc' = "done" /\ result' = "AttributeError" /\ last_refresh' = last_refresh
       ELSE pc' = "rf_click" /\ result' = result /\ last_refresh' = stamp
    /\ UNCHANGED <<otherVars, method, kw, now, st1, tries1, st2, tries2, ret, uiState,
                   stamp, flash, bmc, lastRead, stampRead, stampAtClick, probes, sawFail,
                   okAfterFail, view, clicks>>

\* self._execute_button("Configuration", "Refresh Relationships and Power States")
RefreshClick ==
    /\ pc = "rf_click"
    /\ view' = "Details"
    /\ clicks' = Append(clicks, RefreshSelection)
    /\ stampAtClick' = stamp
    /\ st2' = now
    /\ tries2' = 0
    /\ pc' = "rf_poll"
    /\ UNCHANGED <<otherVars, method, kw, now, result, st1, tries1, ret, uiState, stamp,
                   last_refresh, flash, bmc, lastRead, stampRead, probes, sawFail,
                   okAfterFail>>

\* one attempt of wait_for(lambda: last_refresh != provider.last_refresh_date(),
\* num_sec=300, delay=30); its TimedOutError passes through every caller
RefreshPoll ==
    /\ pc = "rf_poll"
    /\ IF refresh_predicate(last_refresh, stamp)
       THEN /\ now' = now
            /\ IF ret = "sc"
               THEN \* back in _is_state_changed: refresh()'s frame is gone
                    /\ pc' = "sc_read"
                    /\ result' = result
                    /\ last_refresh' = 0 /\ st2' = 0 /\ tries2' = 0
                    /\ stampRead' = 0 /\ stampAtClick' = 0
               ELSE /\ pc' = "done"
                    /\ result' = "ok"
                    /\ tries2' = tries2 + 1
                    /\ stampRead' = stamp
                    /\ UNCHANGED <<last_refresh, st2, stampAtClick>>
       ELSE /\ now' = now + RefreshDelay
            /\ tries2' = tries2 + 1
            /\ stampRead' = stamp
            /\ UNCHANGED <<last_refresh, st2, stampAtClick>>
            /\ IF wait_for_continues(st2, now', RefreshNumSec)
               THEN pc' = "rf_poll" /\ result' = result
               ELSE pc' = "done" /\ result' = "TimedOut"
    /\ UNCHANGED <<otherVars, method, kw, st1, tries1, ret, uiState, stamp, flash, bmc, lastRead,
                   probes, sawFail, okAfterFail, view, clicks>>

\* ---------------------------------------------------- _wait_restart_bmc
\* one attempt of wait_for(lambda: not _send_request(), num_sec=300, delay=5)
BmcStopPoll ==
    /\ pc = "bmc_stop"
    /\ probes' = probes + 1
    /\ sawFail' = (sawFail \/ bmc # "ok")
    /\ okAfterFail' = (okAfterFail \/ (sawFail /\ bmc = "ok"))
    /\ IF ~send_request(bmc)
       THEN \* the second wait_for starts
            /\ pc' = "bmc_start"
            /\ result' = result
            /\ now' = now
            /\ st1' = now
            /\ tries1' = 0
       ELSE /\ now' = now + BmcDelay
            /\ st1' = st1
            /\ tries1' = tries1 + 1
            /\ IF wait_for_continues(st1, now', BmcNumSec)
               THEN pc' = "bmc_stop" /\ result' = result
               ELSE pc' = "done" /\ result' = "TimedOut"
    /\ UNCHANGED <<otherVars, method, kw, st2, tries2, ret, uiState, stamp, last_refresh, flash,
                   bmc, lastRead, stampRead, stampAtClick, view, clicks>>

\* one attempt of wait_for(_send_request, num_sec=300, delay=5)
BmcStartPoll ==
    /\ pc = "bmc_start"
    /\ tries1' = tries1 + 1
    /\ probes' = probes + 1
    /\ sawFail' = (sawFail \/ bmc # "ok")
    /\ okAfterFail' = (okAfterFail \/ (sawFail /\ bmc = "ok"))
    /\ IF send_request(bmc)
       THEN /\ pc' = "done"
            /\ result' = "ok"
            /\ now' = now
       ELSE /\ now' = now + BmcDelay
            /\ IF wait_for_continues(st1, now', BmcNumSec)
               THEN pc' = "bmc_start" /\ result' = result
               ELSE pc' = "done" /\ result' = "TimedOut"
    /\ UNCHANGED <<otherVars, method, kw, st1, st2, tries2, ret, uiState, stamp, last_refresh,
                   flash, bmc, lastRead, stampRead, stampAtClick, view, clicks>>

\* -------------------------------- exists, wait_to_appear, wait_for_delete
actVars == <<kw, st2, tries2, ret, uiState, stamp, last_refresh, flash, bmc, lastRead,
             stampRead, stampAtClick, probes, sawFail, okAfterFail, clicks>>
statVars == <<vs, vsOut>>
navVars == <<navTarget, navFrom, navStack, navLog>>

\* the test reads server.exists
CallExists ==
    /\ pc = "idle"
    /\ \E l \in Listings, v \in Views : listing' = l /\ view' = v
    /\ method' = "exists"
    /\ pc' = "exists"
    /\ UNCHANGED <<actVars, collVars, statVars, navVars, now, result, st1, tries1, lastExists,
                   refreshes>>

Exists ==
    /\ pc = "exists"
    /\ view' = "All"
    /\ lastExists' = exists(listing, SelfName)
    /\ result' = "ok"
    /\ pc' = "done"
    /\ UNCHANGED <<actVars, collVars, statVars, navVars, method, now, st1, tries1, listing,
                   refreshes>>

\* the test calls wait_to_appear() or wait_for_delete()
CallWait ==
    /\ pc = "idle"
    /\ \E m \in {"wait_to_appear", "wait_for_delete"}, l \in Listings, v \in Views :
        method' = m /\ listing' = l /\ view' = v
    /\ pc' = "wait_nav"
    /\ UNCHANGED <<actVars, collVars, statVars, navVars, now, result, st1, tries1, lastExists,
                   refreshes>>

\* view = navigate_to(self.parent, "All"), then wait_for starts
WaitNavigate ==
    /\ pc = "wait_nav"
    /\ view' = "All"
    /\ st1' = now
    /\ tries1' = 0
    /\ pc' = "list_poll"
    /\ UNCHANGED <<actVars, collVars, statVars, navVars, method, now, result, listing,
                   lastExists, refreshes>>

\* one attempt of wait_for(lambda: [not] self.exists, num_sec=.., fail_func=
\* view.browser.refresh): after a failed attempt wait_for sleeps, calls fail_func
\* (the page is loaded again, with whatever the appliance lists by then) and tests
\* the time
ListPoll ==
    /\ pc = "list_poll"
    /\ tries1' = tries1 + 1
    /\ view' = "All"
    /\ lastExists' = exists(listing, SelfName)
    /\ IF (IF method = "wait_to_appear" THEN appear_predicate(lastExists')
                                        ELSE delete_predicate(lastExists'))
       THEN /\ pc' = "done"
            /\ result' = "ok"
            /\ UNCHANGED <<now, refreshes, listing>>
       ELSE /\ now' = now + WaitForDefaultDelay
            /\ refreshes' = refreshes + 1
            /\ \E l \in Listings : listing' = l
            /\ IF wait_for_continues(st1, now',
                     IF method = "wait_to_appear" THEN AppearNumSec ELSE DeleteNumSec)
               THEN pc' = "list_poll" /\ result' = result
               ELSE pc' = "done" /\ result' = "TimedOut"
    /\ UNCHANGED <<actVars, collVars, statVars, navVars, method, st1>>

\* ------------------------------------------------------- validate_stats
PartialMaps(keys, values) == UNION {[d -> values] : d \in SUBSET keys}

\* the test calls validate_stats(ui=...)
CallValidateStats ==
    /\ pc = "idle"
    /\ \E u \in BOOLEAN, h \in [StatKeys \cup InventoryKeys -> BOOLEAN],
          cs \in [StatKeys -> StatTexts], ci \in [InventoryKeys -> PowerStates],
          ss \in PartialMaps(StatKeys, StatValues),
          si \in PartialMaps(InventoryKeys, PowerStates), v \in Views :
        /\ vs' = [ui |-> u, has |-> h, cfme_stats |-> cs, cfme_inventory |-> ci,
                  server_stats |-> ss, server_inventory |-> si]
        /\ view' = v
    /\ method' = "validate_stats"
    /\ pc' = "validate"
    /\ UNCHANGED <<actVars, collVars, navVars, now, result, st1, tries1, listing, lastExists,
                   refreshes, vsOut>>

\* load_details() when ui is set and every accessor that runs go to the details page
ValidateStats ==
    /\ pc = "validate"
    /\ vsOut' = validate_stats(vs)
    /\ result' = IF vsOut'[1] = "none" THEN "ok" ELSE vsOut'[1]
    /\ view' = IF vs.ui \/ vs.has[STATS_TO_MATCH[1]] THEN "Details" ELSE view
    /\ pc' = "done"
    /\ UNCHANGED <<actVars, collVars, navVars, method, now, st1, tries1, listing, lastExists,
                   refreshes, vs>>

\* ---------------------------------------------------------- navigate_to
Frame(s, ph) == [step |-> s, phase |-> ph]

\* the test calls navigate_to(obj, step) for a registered step
CallNavigate ==
    /\ pc = "idle"
    /\ \E t \in Steps, v \in Views :
        /\ navTarget' = t
        /\ navFrom' = v
        /\ view' = v
        /\ navStack' = <<Frame(t, "enter")>>
    /\ method' = "navigate_to"
    /\ pc' = "nav"
    /\ UNCHANGED <<actVars, collVars, statVars, now, result, st1, tries1, listing, lastExists,
                   refreshes, navLog>>

NavFinish(stack) ==
    /\ navStack' = stack
    /\ pc' = IF stack = <<>> THEN "done" ELSE "nav"
    /\ result' = IF stack = <<>> THEN "ok" ELSE result

\* a step is entered: nothing to do when its view is displayed; otherwise its
\* prerequisite is resolved first.  The root step's own way in is not part of
\* this file: entering it undisplayed runs its transition.
NavEnter ==
    /\ pc = "nav"
    /\ navStack # <<>>
    /\ Head(navStack).phase = "enter"
    /\ LET s == Head(navStack).step
       IN  IF view = s
           THEN NavFinish(Tail(navStack)) /\ UNCHANGED <<view, navLog>>
           ELSE IF s = Root
           THEN /\ view' = s
                /\ navLog' = Append(navLog, s)
                /\ NavFinish(Tail(navStack))
           ELSE IF Len(navStack) >= MaxNavDepth
           THEN /\ pc' = "done"
                /\ result' = "RecursionError"
                /\ UNCHANGED <<view, navLog, navStack>>
           ELSE /\ navStack' = <<Frame(prerequisite(s), "enter"), Frame(s, "step")>>
                                  \o Tail(navStack)
                /\ UNCHANGED <<pc, result, view, navLog>>
    /\ UNCHANGED <<actVars, collVars, statVars, method, now, st1, tries1, listing, lastExists,
                   refreshes, navTarget, navFrom>>

\* the prerequisite's view is displayed: the step's own transition runs
NavStep ==
    /\ pc = "nav"
    /\ navStack # <<>>
    /\ Head(navStack).phase = "step"
    /\ view' = Head(navStack).step
    /\ navLog' = Append(navLog, Head(navStack).step)
    /\ NavFinish(Tail(navStack))
    /\ UNCHANGED <<actVars, collVars, statVars, method, now, st1, tries1, listing, lastExists,
                   refreshes, navTarget, navFrom>>

\* ------------------------------------------------------ all and find_by
\* the test calls collection.all(provider) or collection.find_by(provider, name)
CallCollection ==
    /\ pc = "idle"
    /\ \E m \in {"all", "find_by"}, r \in QueryResults,
          f \in Providers \cup {NoProvider}, p \in Providers \cup {NoProvider},
          n \in Names :
        /\ method' = m
        /\ coll' = [rows |-> r, filter |-> f, provider |-> p, ph_name |-> n]
    /\ pc' = "collection"
    /\ UNCHANGED <<actVars, statVars, navVars, now, result, st1, tries1, listing,
                   lastExists, refreshes, view, collOut>>

\* the query runs and the entities are built
Collection ==
    /\ pc = "collection"
    /\ collOut' = IF method = "all"
                  THEN all(coll.rows, coll.filter, coll.provider)
                  ELSE find_by(coll.rows, coll.filter, coll.provider, coll.ph_name)
    /\ result' = "ok"
    /\ pc' = "done"
    /\ UNCHANGED <<actVars, statVars, navVars, method, now, st1, tries1, listing,
                   lastExists, refreshes, view, coll>>

\* ------------------------------------------------------- the environment
\* the server's displayed state changes
EnvState ==
    /\ pc \in {"sc_poll", "sc_read", "rf_capture", "rf_click", "rf_poll"}
    /\ ret = "sc"
    /\ \E s \in PowerStates \ {uiState} : uiState' = s
    /\ UNCHANGED <<otherVars, pc, method, kw, now, result, st1, tries1, st2, tries2, ret, stamp,
                   last_refresh, flash, bmc, lastRead, stampRead, stampAtClick,
                   probes, sawFail, okAfterFail, view, clicks>>

\* the provider finishes a refresh: its last refresh date moves on
EnvStamp ==
    /\ pc \in {"rf_capture", "rf_click", "rf_poll"}
    /\ stamp < MaxStamp
    /\ stamp' = stamp + 1
    /\ UNCHANGED <<otherVars, pc, method, kw, now, result, st1, tries1, st2, tries2, ret,
                   uiState, last_refresh, flash, bmc, lastRead, stampRead,
                   stampAtClick, probes, sawFail, okAfterFail, view, clicks>>

\* the flash banner appears
EnvFlash ==
    /\ pc = "flash_poll"
    /\ ~flash
    /\ flash' = TRUE
    /\ UNCHANGED <<otherVars, pc, method, kw, now, result, st1, tries1, st2, tries2, ret,
                   uiState, stamp, last_refresh, bmc, lastRead, stampRead,
                   stampAtClick, probes, sawFail, okAfterFail, view, clicks>>

\* the BMC goes down, comes back, or answers with an error status
EnvBmc ==
    /\ pc \in {"bmc_stop", "bmc_start"}
    /\ \E o \in ProbeOutcomes \ {bmc} : bmc' = o
    /\ UNCHANGED <<otherVars, pc, method, kw, now, result, st1, tries1, st2, tries2, ret,
                   uiState, stamp, last_refresh, flash, lastRead, stampRead,
                   stampAtClick, probes, sawFail, okAfterFail, view, clicks>>

Next ==
    \/ CallAction
    \/ ExecuteActionButton
    \/ FlashPoll
    \/ StateChangePoll
    \/ StateChangeRead
    \/ CallRefresh
    \/ RefreshCapture
    \/ RefreshClick
    \/ RefreshPoll
    \/ BmcStopPoll
    \/ BmcStartPoll
    \/ CallExists
    \/ Exists
    \/ CallWait
    \/ WaitNavigate
    \/ ListPoll
    \/ CallValidateStats
    \/ ValidateStats
    \/ CallNavigate
    \/ NavEnter
    \/ NavStep
    \/ CallCollection
    \/ Collection
    \/ EnvState
    \/ EnvStamp
    \/ EnvFlash
    \/ EnvBmc

Spec == Init /\ [][Next]_vars

\* ================================================================ claims

StateWaitCalled == method \in ActionMethods /\ wants_state_change(kw.desired_state)

\* C1: wait_for_state_change returns normally only if the last evaluation of its
\* predicate read an accessor value equal to desired_state; a call none of whose
\* evaluations reads desired_state does not return normally.  (The call has
\* returned normally when its method has returned or has gone on to the BMC wait.)
C1_ReturnsOnlyOnDesiredState ==
    (StateWaitCalled /\ (result = "ok" \/ pc \in {"bmc_stop", "bmc_start"}))
        => lastRead = kw.desired_state

\* C1 happens: power_on(desired_state='on') returned after a failed first attempt
C1_Witness ==
    /\ method = "power_on" /\ kw.desired_state = "on"
    /\ result = "ok" /\ tries1 >= 2 /\ lastRead = "on"

\* C4: power_on(desired_state='on', timeout=5, delay=1), given the power_state
\* accessor as target and a provider, whose accessor never reports 'on' raises
\* TimedOut within about its own 5 seconds (one more delay at most), after at
\* least 3 evaluations of the predicate
C4_TimesOutWithinItsBudget ==
    (/\ method = "power_on" /\ kw.desired_state = "on"
     /\ kw.target = "power_state" /\ kw.provider # None
     /\ kw.timeout = ScenarioBudget[1] /\ kw.delay = ScenarioBudget[2]
     /\ pc = "done" /\ result # "ok")
        => (/\ result = "TimedOut"
            /\ tries1 >= 3
            /\ now <= ScenarioBudget[1] + ScenarioBudget[2])

\* C7: refresh captures the timestamp no later than it selects the refresh
\* action; it returns normally only when the last read of the timestamp differs
\* from the captured one; it raises TimedOut when 11 reads, 30 s apart, over more
\* than 300 s, all found the captured timestamp
C7_RefreshWaitsForNewTimestamp ==
    /\ (pc = "rf_poll" \/ (method = "refresh" /\ pc = "done"))
          => (last_refresh <= stampAtClick /\ clicks[Len(clicks)] = RefreshSelection)
    /\ (method = "refresh" /\ result = "ok") => stampRead # last_refresh
    /\ (method = "refresh" /\ result = "TimedOut")
          => (/\ stampRead = last_refresh
              /\ stamp = last_refresh
              /\ tries2 = 11
              /\ now - st2 = 330)

\* C7 happens: refresh() returned after an attempt that found the old timestamp
C7_Witness ==
    /\ method = "refresh" /\ result = "ok" /\ tries2 >= 2
    /\ stampRead # last_refresh

BmcWaitAsked == method = "restart_management_controller" /\ kw.wait_restart_bmc

\* C8: _wait_restart_bmc returns normally only after a probe failed and a later
\* probe succeeded; its second wait starts only after a failed probe; the wait
\* runs only for restart_management_controller(wait_restart_bmc=True) and only
\* after the restart action was selected; without a failed probe the call does
\* not return normally, and a wait that gives up raises TimedOut after 61
\* probes, 5 s apart, over more than 300 s
C8_BmcStopsThenStarts ==
    /\ (BmcWaitAsked /\ result = "ok") => (sawFail /\ okAfterFail)
    /\ pc = "bmc_start" => sawFail
    /\ (pc \in {"bmc_stop", "bmc_start"} \/ probes > 0)
          => (/\ BmcWaitAsked
              /\ clicks # <<>>
              /\ clicks[1] = <<"Power", "Restart Management Controller">>)
    /\ (BmcWaitAsked /\ pc = "done" /\ ~sawFail) => result # "ok"
    /\ (BmcWaitAsked /\ result = "TimedOut" /\ probes > 0)
          => (tries1 = 61 /\ now - st1 = 305)

\* C8 happens: the BMC went down and came back, the call returned
C8_Witness ==
    /\ BmcWaitAsked /\ result = "ok" /\ pc = "done"
    /\ sawFail /\ okAfterFail /\ tries1 >= 2

RefreshTriggered == \E i \in DOMAIN clicks : clicks[i] = RefreshSelection
StatePolled ==
    \/ pc \in {"sc_poll", "sc_read"}
    \/ (pc \in {"rf_capture", "rf_click", "rf_poll"} /\ ret = "sc")
    \/ lastRead # None

\* C9 as stated: whatever keyword arguments are passed, the Identify-LED actions
\* never poll an accessor and never trigger a refresh
C9_LedNeverPolls ==
    method \in LedMethods => (~StatePolled /\ ~RefreshTriggered)

\* C9 amended: the Identify-LED actions go to the details view and select their
\* Identify item first; they neither poll nor refresh when no desired_state is
\* passed; with a desired_state they run the state wait of the power actions,
\* whose every evaluation triggers a refresh on the provider passed
C9_LedPollsOnlyWithDesiredState ==
    (method \in LedMethods /\ pc \notin {"idle", "exec_button"})
        => (/\ view = "Details"
            /\ clicks[1] = ActionOf(method)
            /\ clicks[1][1] = "Identify"
            /\ (kw.desired_state = None => (~StatePolled /\ ~RefreshTriggered))
            /\ (kw.desired_state # None => (pc = "sc_poll" \/ tries1 >= 1))
            /\ (kw.desired_state # None /\ kw.provider # None /\ pc = "done")
                  => RefreshTriggered)

\* C9 happens: a LED action without desired_state has returned
C9_Witness ==
    /\ method = "blink_loc_led" /\ kw.desired_state = None
    /\ result = "ok"
    /\ clicks = <<<<"Identify", "Blink LED">>>>

\* ------------------------------------------------------------ navigation
Hop(s) == IF s = Root THEN Root ELSE prerequisite(s)

\* the transitions the chain of a step runs from its root
ExpectedChain(t) ==
    CASE t = "All" -> <<"LoggedIn", "All">>
      [] t = "Details" -> <<"LoggedIn", "All", "Details">>
      [] t \in {"ManagePolicies", "Provision", "Timelines"}
            -> <<"LoggedIn", "All", "Details", t>>

InSeq(x, q) == \E i \in DOMAIN q : q[i] = x

\* C10: every registered step reaches the root LoggedIn by following
\* prerequisites (within as many hops as there are steps, so no cycle); a
\* resolution that starts on a view that is neither the step nor an ancestor ends
\* normally having run LoggedIn, All, Details and the step, in this order, once
\* each; one that starts on the step's prerequisite runs the step's transition
\* alone
C10_NavigationChain ==
    /\ \A s \in Steps :
          /\ prerequisite(s) \in Steps \cup {Root}
          /\ Hop(Hop(Hop(Hop(Hop(s))))) = Root
    /\ (method = "navigate_to" /\ pc = "done")
          => /\ result = "ok"
             /\ view = navTarget
             /\ ~InSeq(navFrom, ExpectedChain(navTarget))
                   => navLog = ExpectedChain(navTarget)
             /\ LET c == ExpectedChain(navTarget)
                IN  navFrom = c[Len(c) - 1] => navLog = <<navTarget>>

\* C10 happens: Timelines was resolved from a page outside its chain
C10_Witness ==
    /\ method = "navigate_to" /\ pc = "done"
    /\ navTarget = "Timelines" /\ navFrom = "Other"
    /\ navLog = <<"LoggedIn", "All", "Details", "Timelines">>

\* -------------------------------------------------------- validate_stats
\* the number a capacity text of the details page stands for
TextValue(t) ==
    CASE t = <<1, 6>> -> 16
      [] t = <<0, 1, 6>> -> 16
      [] t = <<1, 6, 3, 8, 4>> -> 16384
      [] t = <<3, 2, 7, 6, 8>> -> 32768

ValidateStatsDone == method = "validate_stats" /\ pc = "done"

AllKeysPresent ==
    /\ \A k \in StatKeys \cup InventoryKeys : vs.has[k]
    /\ DOMAIN vs.server_stats = StatKeys
    /\ DOMAIN vs.server_inventory = InventoryKeys

CoresDiffer == TextValue(vs.cfme_stats["cores_capacity"]) # vs.server_stats["cores_capacity"]
MemoryDiffers ==
    TextValue(vs.cfme_stats["memory_capacity"]) # vs.server_stats["memory_capacity"]
PowerDiffers == vs.cfme_inventory["power_state"] # vs.server_inventory["power_state"]

\* C2: with every key present on both sides, validate_stats raises StatsDoNotMatch
\* iff the UI value and the remote value of some key differ; the error carries
\* the first differing key in the order cores_capacity, memory_capacity,
\* power_state and the two values compared; with no difference nothing is raised
C2_MismatchIffValuesDiffer ==
    (ValidateStatsDone /\ AllKeysPresent) =>
        IF CoresDiffer
        THEN /\ result = "StatsDoNotMatch"
             /\ vsOut = <<"StatsDoNotMatch", "cores_capacity",
                          vs.server_stats["cores_capacity"],
                          TextValue(vs.cfme_stats["cores_capacity"])>>
        ELSE IF MemoryDiffers
        THEN /\ result = "StatsDoNotMatch"
             /\ vsOut = <<"StatsDoNotMatch", "memory_capacity",
                          vs.server_stats["memory_capacity"],
                          TextValue(vs.cfme_stats["memory_capacity"])>>
        ELSE IF PowerDiffers
        THEN /\ result = "StatsDoNotMatch"
             /\ vsOut = <<"StatsDoNotMatch", "power_state",
                          vs.server_inventory["power_state"],
                          vs.cfme_inventory["power_state"]>>
        ELSE result = "ok" /\ vsOut[1] = "none"

\* C2 happens: remote memory_capacity 32768, the UI shows 16384
C2_Witness ==
    /\ ValidateStatsDone /\ AllKeysPresent
    /\ vsOut = <<"StatsDoNotMatch", "memory_capacity", 32768, 16384>>

AllKeys == STATS_TO_MATCH \o INVENTORY_TO_MATCH

RemoteOf(k) == IF k \in StatKeys THEN vs.server_stats ELSE vs.server_inventory

\* key k has an accessor, a remote value, and the two values agree
KeyPasses(k) ==
    /\ vs.has[k]
    /\ k \in DOMAIN RemoteOf(k)
    /\ IF k \in StatKeys THEN TextValue(vs.cfme_stats[k]) = vs.server_stats[k]
                         ELSE vs.cfme_inventory[k] = vs.server_inventory[k]

\* key number i is checked: every key before it passed
KeyChecked(i) == \A j \in 1..(i - 1) : KeyPasses(AllKeys[j])

\* C3 as stated: for each key checked, a key the remote mapping lacks raises
\* HostStatsNotContains naming it, and a key without accessor raises
\* ProviderHasNoProperty naming it
C3_MissingKeyErrors ==
    ValidateStatsDone =>
        \A i \in DOMAIN AllKeys :
            LET k == AllKeys[i]
            IN  KeyChecked(i) =>
                  /\ k \notin DOMAIN RemoteOf(k)
                        => (vsOut[1] = "HostStatsNotContains" /\ vsOut[2] = k)
                  /\ ~vs.has[k]
                        => (vsOut[1] = "ProviderHasNoProperty" /\ vsOut[2] = k)

\* C3 amended: for each key checked, a key without accessor raises
\* ProviderHasNoProperty naming it, whether or not the remote mapping has the
\* key; a key with an accessor that the remote mapping lacks raises
\* HostStatsNotContains naming it; either way that is the call's outcome (no
\* StatsDoNotMatch, no later key)
C3_AccessorCheckedBeforeRemote ==
    ValidateStatsDone =>
        \A i \in DOMAIN AllKeys :
            LET k == AllKeys[i]
            IN  KeyChecked(i) =>
                  /\ (vs.has[k] /\ k \notin DOMAIN RemoteOf(k))
                        => (/\ result = "HostStatsNotContains"
                            /\ vsOut[1] = "HostStatsNotContains" /\ vsOut[2] = k)
                  /\ ~vs.has[k]
                        => (/\ result = "ProviderHasNoProperty"
                            /\ vsOut[1] = "ProviderHasNoProperty" /\ vsOut[2] = k)

\* C3 happens: cores_capacity passed, the remote stats lack memory_capacity
C3_Witness ==
    /\ ValidateStatsDone
    /\ vs.has["memory_capacity"]
    /\ "memory_capacity" \notin DOMAIN vs.server_stats
    /\ vsOut[1] = "HostStatsNotContains" /\ vsOut[2] = "memory_capacity"

\* --------------------------------------------------------------- listing
OnSomePage == \E i \in DOMAIN listing : SelfName \in listing[i]

\* C5: exists returns true iff some page of the listing holds an entity named
\* self.name, and returns false, raising nothing, when none does
C5_ExistsIffOnSomePage ==
    (method = "exists" /\ pc = "done") => (result = "ok" /\ lastExists = OnSomePage)

\* C5 happens: the server is found on a page after the first
C5_Witness ==
    /\ method = "exists" /\ pc = "done"
    /\ lastExists
    /\ Len(listing) >= 2 /\ SelfName \notin listing[1]

WaitMethod == method \in {"wait_to_appear", "wait_for_delete"}
WaitNumSec == IF method = "wait_to_appear" THEN AppearNumSec ELSE DeleteNumSec

\* C6: in wait_to_appear and wait_for_delete every failed poll of exists is
\* followed by one refresh of the listing before the next poll, one second
\* later; the call returns normally at the first poll that finds the server
\* on some page (wait_for_delete: on no page); it raises TimedOut only when
\* every poll of the 1000 s (500 s) budget failed
C6_WaitPollsAndRefreshes ==
    /\ pc = "list_poll" => (refreshes = tries1 /\ now - st1 = tries1)
    /\ (WaitMethod /\ result = "ok")
          => (/\ lastExists = (method = "wait_to_appear")
              /\ OnSomePage = (method = "wait_to_appear")
              /\ refreshes = tries1 - 1
              /\ now - st1 <= WaitNumSec)
    /\ (WaitMethod /\ result = "TimedOut")
          => (/\ lastExists = (method # "wait_to_appear")
              /\ refreshes = tries1
              /\ tries1 = WaitNumSec + 1
              /\ now - st1 > WaitNumSec)

\* C6 happens: wait_to_appear found the server on page 2 of 3 after one refresh
C6_Witness ==
    /\ method = "wait_to_appear" /\ result = "ok"
    /\ refreshes = 1 /\ tries1 = 2
    /\ Len(listing) = 3 /\ SelfName \in listing[2]

\* ------------------------------------------------------------ collection
CollectionDone == method \in {"all", "find_by"} /\ pc = "done"

\* the rows a collection with this filter returns entities for
RowsOfFilter ==
    IF coll.filter = NoProvider THEN coll.rows
    ELSE LET named(r) == r[2] = coll.filter[2] IN SelectSeq(coll.rows, named)

\* the entity of a row: the filter provider, or the provider of the row's
\* management system
EntityOfRow(r) ==
    [name |-> r[1], ip_address |-> r[3],
     provider |-> IF coll.filter = NoProvider THEN <<"provider", r[2]>>
                  ELSE coll.filter]

\* C11: what all(provider) and find_by(provider, ph_name) return is the same
\* for every provider argument; all returns one entity per row (only the rows
\* of the filter provider's management system when a filter is set), whose
\* provider is the filter provider or else the one looked up by the row's
\* management-system name; find_by returns the first such row named ph_name,
\* or nothing
C11_ProviderArgumentIgnored ==
    CollectionDone =>
        /\ \A p \in Providers \cup {NoProvider} :
              collOut = IF method = "all"
                        THEN all(coll.rows, coll.filter, p)
                        ELSE find_by(coll.rows, coll.filter, p, coll.ph_name)
        /\ \A i \in DOMAIN collOut : collOut[i].provider # NoProvider
        /\ method = "all" =>
              /\ Len(collOut) = Len(RowsOfFilter)
              /\ \A i \in DOMAIN collOut : collOut[i] = EntityOfRow(RowsOfFilter[i])
        /\ method = "find_by" =>
              LET hits == {i \in DOMAIN RowsOfFilter : RowsOfFilter[i][1] = coll.ph_name}
              IN  IF hits = {} THEN collOut = <<>>
                  ELSE \E i \in hits :
                          /\ \A j \in hits : i <= j
                          /\ collOut = <<EntityOfRow(RowsOfFilter[i])>>

\* C11 happens: all() without filter, called with the provider of ems1, returned
\* a server of ems2 with the provider of ems2
C11_Witness ==
    /\ method = "all" /\ pc = "done"
    /\ coll.filter = NoProvider
    /\ coll.provider = <<"provider", "ems1">>
    /\ Len(collOut) = 2
    /\ collOut[2].provider = <<"provider", "ems2">>

====
